---------------------------- MODULE Spec2Model ----------------------------
(***************************************************************************)
(* PSoC 6 simultaneous-sampling example (main.c): a periodic timer starts  *)
(* SAR0 and SAR1 together, each unit raises an End-Of-Scan interrupt, the  *)
(* two handlers set one flag each, and the main loop sleeps until both     *)
(* flags are set, clears them, reads both results, multiplies the two      *)
(* voltages, writes the scaled product to the CTDAC and prints the inputs. *)
(*                                                                         *)
(* The main loop is modelled one C statement per step.  Each handler is    *)
(* two steps (status test with flag write, then interrupt clear).  While a *)
(* SAR interrupt is pending or a handler is active the main loop does not  *)
(* advance (Cortex-M takes an enabled pending interrupt before the next    *)
(* thread-mode statement).  Timer ticks and conversion completions are     *)
(* hardware events and may fall between any two steps.                     *)
(***************************************************************************)
EXTENDS Integers, FiniteSets, Sequences, TLC

(* ------------------------------ bounds --------------------------------- *)

\* Number of timer triggers explored.
MaxCycles == 2

(* ------------------------- program constants --------------------------- *)

SCALING_FACTOR == 372

\* Largest code of the 12-bit CTDAC value register.
DAC_MAX == 4095

\* SAR0_IRQ_cfg.intrPriority and SAR1_IRQ_cfg.intrPriority.
SAR0_PRIORITY == 7
SAR1_PRIORITY == 7

\* SAR1 one priority level more urgent than SAR0.
intrPriorityStaggered(u) == SAR0_PRIORITY - u

intrPriority(u) == IF u = 0 THEN SAR0_PRIORITY ELSE SAR1_PRIORITY

\* Calibration of the count-to-volt mapping: 3.3 V over 4095 counts.
VREF_MV == 3300
FULL_SCALE_COUNT == 4095

RECURSIVE GCD(_, _)
GCD(a, b) == IF b = 0 THEN a ELSE GCD(b, a % b)

\* Voltages are exact rationals with this denominator: the smallest one that
\* makes every count a whole number of units (13650, one count = 11 units).
VoltDen == (1000 * FULL_SCALE_COUNT) \div GCD(1000 * FULL_SCALE_COUNT, VREF_MV)

\* 3.3 V, the full-scale input, in units of 1/VoltDen V.
FullScaleV == (VREF_MV * VoltDen) \div 1000

Units == {0, 1}

\* Raw counts the two input voltages are made to convert to.
RawInputs == {-2048, 0, 1241, 4095}

\* Interrupt sources of a SAR unit (CY_SAR_INTR is the union of the three).
CY_SAR_INTR_EOS == "EOS"
CY_SAR_INTR == {"EOS", "OVERFLOW", "FW_COLLISION"}

VARIABLES
    pc,             \* main(): the statement about to be executed
    sar0_isr_set,   \* flag written by sar0_interrupt
    sar1_isr_set,   \* flag written by sar1_interrupt
    sar_result0,    \* main()'s locals
    sar_result1,
    resultV_0,
    resultV_1,
    product_result,
    dac,            \* <<last argument of Cy_CTDAC_SetValue>>, <<>> before the first call
    uart_tx_active, \* the UART is still shifting out characters
    line,           \* the two numbers of the last telemetry line, <<>> before the first
    isr,            \* stack of the handlers entered and not yet returned (innermost last)
    intr,           \* intr[u]: interrupt status bits of SAR u
    busy,           \* busy[u]: SAR u is converting
    reg,            \* reg[u]: result register of SAR u
    vin,            \* vin[u]: the count the voltage on SAR u's input pin converts to
    dead,           \* dead[u]: SAR u will raise no further End-Of-Scan
    cycle,          \* number of timer triggers so far
    done,           \* startup calls that have returned success
    failed,         \* startup calls that have reported failure
    \* history variables (not program state)
    regCyc,         \* regCyc[u]: trigger cycle that produced reg[u]
    flagCyc,        \* flagCyc[u]: trigger cycle of the completion last recorded in flag u
    setSince,       \* setSince[u]: handler u set its flag since the last gate opening
    openCyc,        \* <<flagCyc[0], flagCyc[1]>> at the last gate opening
    openOk,         \* both handlers had set their flag since the opening before
    readCyc,        \* readCyc[u]: cycle of the value last read into sar_result<u>
    handled,        \* handled[u]: trigger cycles whose End-Of-Scan handler u recorded
    opens,          \* number of gate openings so far
    ioCount         \* ioCount[s]: how often main-loop statement s has been executed

progVars == <<pc, sar0_isr_set, sar1_isr_set, sar_result0, sar_result1,
              resultV_0, resultV_1, product_result, dac, uart_tx_active, line>>
hwVars   == <<isr, intr, busy, reg, vin, dead, cycle, done, failed>>
gateHist == <<regCyc, flagCyc, setSince, openCyc, openOk, readCyc, handled, opens>>
histVars == <<gateHist, ioCount>>
vars     == <<progVars, hwVars, histVars>>

mainLocals == <<sar_result0, sar_result1, resultV_0, resultV_1, product_result>>

(* --------------------------- pure functions ---------------------------- *)

Abs(x) == IF x < 0 THEN -x ELSE x

\* <<(a*b) \div c, (a*b) % c>> for a, b >= 0 and c > 0, by binary
\* multiplication so that no intermediate value exceeds 3*c + a.
RECURSIVE MulDivMod(_, _, _)
MulDivMod(a, b, c) ==
    IF b = 0 THEN <<0, 0>>
    ELSE LET h  == MulDivMod(a, b \div 2, c)
             q2 == 2 * h[1] + (IF b % 2 = 1 THEN a \div c ELSE 0)
             r2 == 2 * h[2] + (IF b % 2 = 1 THEN a % c ELSE 0)
         IN  <<q2 + (r2 \div c), r2 % c>>

\* Cy_SAR_CountsTo_Volts: counts * (3.3 V / 4095), in units of 1/VoltDen V.
Cy_SAR_CountsTo_Volts(counts) ==
    (counts * ((VREF_MV * VoltDen) \div 1000)) \div FULL_SCALE_COUNT

\* round(product * SCALING_FACTOR): the nearest integer, halves away from
\* zero.  product is in units of 1/VoltDen^2 V^2.
RoundedCode(product) ==
    LET qr == MulDivMod(Abs(product), SCALING_FACTOR, VoltDen * VoltDen)
        q  == qr[1] + (IF 2 * qr[2] >= VoltDen * VoltDen THEN 1 ELSE 0)
    IN  IF product < 0 THEN -q ELSE q

\* (int)(product_result * SCALING_FACTOR): the float-to-int cast truncates
\* toward zero.  product is in units of 1/VoltDen^2 V^2.
ScaledCode(product) ==
    LET q == MulDivMod(Abs(product), SCALING_FACTOR, VoltDen * VoltDen)[1]
    IN  IF product < 0 THEN -q ELSE q

\* "%.2f": the voltage rounded to hundredths of a volt.
Fmt2(v) ==
    LET q == (2 * Abs(v) * 100 + VoltDen) \div (2 * VoltDen)
    IN  IF v < 0 THEN -q ELSE q

(* ------------------------------- state --------------------------------- *)

\* The main-loop statements whose executions are counted.
Counted == {"clear0", "clear1", "get0", "get1", "setvalue", "print"}

\* ioCount after one more execution of statement s.
Count(s) == [ioCount EXCEPT ![s] = @ + 1]

Flag(u) == IF u = 0 THEN sar0_isr_set ELSE sar1_isr_set

\* An enabled SAR interrupt awaits service.
Pending(u) == intr[u] # {}

\* The main loop may execute its next statement.
ThreadRuns == isr = <<>> /\ \A u \in Units : ~Pending(u)

Init ==
    /\ pc = "cybsp_init"
    /\ sar0_isr_set = FALSE
    /\ sar1_isr_set = FALSE
    /\ sar_result0 = 0
    /\ sar_result1 = 0
    /\ resultV_0 = 0
    /\ resultV_1 = 0
    /\ product_result = 0
    /\ dac = <<>>
    /\ uart_tx_active = FALSE
    /\ line = <<>>
    /\ isr = <<>>
    /\ intr = [u \in Units |-> {}]
    /\ busy = [u \in Units |-> FALSE]
    /\ reg = [u \in Units |-> 0]
    /\ vin \in [Units -> RawInputs]
    /\ dead = [u \in Units |-> FALSE]
    /\ cycle = 0
    /\ done = {}
    /\ failed = {}
    /\ regCyc = [u \in Units |-> 0]
    /\ flagCyc = [u \in Units |-> 0]
    /\ setSince = [u \in Units |-> FALSE]
    /\ openCyc = <<0, 0>>
    /\ openOk = TRUE
    /\ readCyc = [u \in Units |-> 0]
    /\ handled = [u \in Units |-> {}]
    /\ opens = 0
    /\ ioCount = [s \in Counted |-> 0]

(* ------------------------- hardware events ----------------------------- *)

\* One terminal count of the TCPWM counter: the common trigger starts a
\* conversion in both SAR units (a stalled unit does not respond).
Trigger ==
    /\ cycle' = cycle + 1
    /\ busy' = [u \in Units |-> ~dead[u]]
    /\ UNCHANGED <<progVars, isr, intr, reg, vin, dead, done, failed, histVars>>

\* The counter runs free once started (Cy_TCPWM_TriggerStart_Single); the
\* program never stops it or waits for it.
TimerFire ==
    /\ "Cy_TCPWM_TriggerStart_Single" \in done
    /\ cycle < MaxCycles
    /\ \A u \in Units : ~busy[u]
    /\ Trigger

\* SAR u finishes its scan: the result register is loaded and End-Of-Scan is
\* raised (with OVERFLOW when the previous End-Of-Scan is still unserviced).
ConvDone(u) ==
    /\ busy[u]
    /\ reg' = [reg EXCEPT ![u] = vin[u]]
    /\ regCyc' = [regCyc EXCEPT ![u] = cycle]
    /\ busy' = [busy EXCEPT ![u] = FALSE]
    /\ intr' = [intr EXCEPT ![u] =
                  @ \cup {CY_SAR_INTR_EOS}
                    \cup (IF CY_SAR_INTR_EOS \in @ THEN {"OVERFLOW"} ELSE {})]
    /\ UNCHANGED <<progVars, isr, vin, dead, cycle, done, failed,
                   flagCyc, setSince, openCyc, openOk, readCyc, handled, opens,
                   ioCount>>

\* SAR u stops producing End-Of-Scan (misconfiguration, fault).
UnitStall(u) ==
    /\ ~dead[u]
    /\ dead' = [dead EXCEPT ![u] = TRUE]
    /\ busy' = [busy EXCEPT ![u] = FALSE]
    /\ UNCHANGED <<progVars, isr, intr, reg, vin, cycle, done, failed, histVars>>

\* The UART has shifted out the last character of the previous printf.
UartTxDone ==
    /\ uart_tx_active
    /\ uart_tx_active' = FALSE
    /\ UNCHANGED <<pc, sar0_isr_set, sar1_isr_set, mainLocals, dac, line,
                   hwVars, histVars>>

(* -------------------------- interrupt handlers ------------------------- *)

\* The startup call that installs handler u.
Cy_SysInt_Init(u) == IF u = 0 THEN "Cy_SysInt_Init_0" ELSE "Cy_SysInt_Init_1"

\* The startup call that enables the interrupt line of unit u.
NVIC_EnableIRQ(u) == IF u = 0 THEN "NVIC_EnableIRQ_0" ELSE "NVIC_EnableIRQ_1"

\* The NVIC enters handler u when its line is pending, the handler was
\* installed and u is not active, and preempts an active handler only for a
\* numerically lower priority.  A pending line without its handler leaves
\* the CPU in the default handler: the main loop never runs again.
CanEnter(u) ==
    /\ Pending(u)
    /\ Cy_SysInt_Init(u) \in done
    /\ NVIC_EnableIRQ(u) \in done
    /\ "__enable_irq" \in done
    /\ \A i \in 1..Len(isr) : isr[i] # u
    /\ isr # <<>> => intrPriority(u) < intrPriority(isr[Len(isr)])

\* A handler that writes the other unit's flag.
SetFlagOther(u) ==
    /\ sar0_isr_set' = IF u = 1 THEN TRUE ELSE sar0_isr_set
    /\ sar1_isr_set' = IF u = 0 THEN TRUE ELSE sar1_isr_set

\* A handler that writes both flags.
SetFlagBoth(u) ==
    /\ sar0_isr_set' = TRUE
    /\ sar1_isr_set' = TRUE

\* The flag write of handler u.
SetFlag(u) ==
    /\ sar0_isr_set' = IF u = 0 THEN TRUE ELSE sar0_isr_set
    /\ sar1_isr_set' = IF u = 1 THEN TRUE ELSE sar1_isr_set

\* Handler entry and its first statement: test End-Of-Scan, set the flag.
\* Taking the interrupt ends a WFI sleep; the wait loop then tests the gate.
SarIsrStatus(u) ==
    /\ CanEnter(u)
    /\ isr' = Append(isr, u)
    /\ pc' = IF pc = "asleep" THEN "gate" ELSE pc
    /\ IF CY_SAR_INTR_EOS \in intr[u]
       THEN /\ SetFlag(u)
            /\ setSince' = [setSince EXCEPT ![u] = TRUE]
            /\ flagCyc' = [flagCyc EXCEPT ![u] = regCyc[u]]
            /\ handled' = [handled EXCEPT ![u] = @ \cup {regCyc[u]}]
       ELSE UNCHANGED <<sar0_isr_set, sar1_isr_set, setSince, flagCyc, handled>>
    /\ UNCHANGED <<mainLocals, dac, uart_tx_active, line,
                   intr, busy, reg, vin, dead, cycle, done, failed,
                   regCyc, openCyc, openOk, readCyc, opens, ioCount>>

\* A handler that clears the End-Of-Scan source alone.
SarIsrClearEosOnly(u) ==
    /\ isr # <<>> /\ isr[Len(isr)] = u
    /\ intr' = [intr EXCEPT ![u] = @ \ {CY_SAR_INTR_EOS}]
    /\ isr' = SubSeq(isr, 1, Len(isr) - 1)
    /\ UNCHANGED <<progVars, busy, reg, vin, dead, cycle, done, failed, histVars>>

\* The handler's last statement: Cy_SAR_ClearInterrupt(SARu, CY_SAR_INTR).
SarIsrClear(u) ==
    /\ isr # <<>> /\ isr[Len(isr)] = u
    /\ intr' = [intr EXCEPT ![u] = @ \ CY_SAR_INTR]
    /\ isr' = SubSeq(isr, 1, Len(isr) - 1)
    /\ UNCHANGED <<progVars, busy, reg, vin, dead, cycle, done, failed, histVars>>

sar0_interrupt == SarIsrStatus(0) \/ SarIsrClear(0)

sar1_interrupt == SarIsrStatus(1) \/ SarIsrClear(1)

(* ------------------------------- startup ------------------------------- *)

\* The startup statements of main() and init_analog_resources(), in program
\* order.
StartupSeq ==
    << "cybsp_init", "cy_retarget_io_init", "banner",
       "Cy_SysAnalog_Init", "Cy_SysAnalog_Enable", "Cy_SAR_CommonInit",
       "Cy_SAR_Init_0", "Cy_SAR_Init_1", "Cy_SAR_Enable_0", "Cy_SAR_Enable_1",
       "Cy_SAR_SetInterruptMask_0", "Cy_SAR_SetInterruptMask_1",
       "Cy_SysInt_Init_0", "Cy_SysInt_Init_1",
       "NVIC_EnableIRQ_0", "NVIC_EnableIRQ_1",
       "Cy_CTB_OpampInit", "Cy_CTDAC_Init", "Cy_CTDAC_Enable", "Cy_CTB_Enable",
       "Cy_TCPWM_Counter_Init", "Cy_TCPWM_Counter_Enable", "__enable_irq",
       "Cy_TCPWM_TriggerStart_Single" >>

StartupSteps == {StartupSeq[i] : i \in 1..(Len(StartupSeq) - 1)}

\* The statement that follows startup statement s.
StepAfter(s) ==
    LET i == CHOOSE j \in 1..(Len(StartupSeq) - 1) : StartupSeq[j] = s
    IN  StartupSeq[i + 1]

\* The calls whose result the code tests, calling CY_ASSERT(0) on failure.
Checked ==
    {"cybsp_init", "cy_retarget_io_init", "Cy_SysAnalog_Init",
     "Cy_SAR_CommonInit", "Cy_SAR_Init_0", "Cy_SAR_Init_1",
     "Cy_CTB_OpampInit", "Cy_CTDAC_Init", "Cy_TCPWM_Counter_Init"}

\* The calls whose result the code casts to void.
Discarded == {"Cy_SysInt_Init_0", "Cy_SysInt_Init_1"}

\* The calls that return a status.
Fallible == Checked \cup Discarded

startupUnchanged ==
    <<sar0_isr_set, sar1_isr_set, mainLocals, dac, line,
      isr, intr, busy, reg, vin, dead, cycle, histVars>>

\* A startup call returns (with success, when it returns a status).
StartupCall ==
    /\ pc \in StartupSteps \ {"banner"}
    /\ done' = done \cup {pc}
    /\ pc' = StepAfter(pc)
    /\ UNCHANGED <<failed, uart_tx_active, startupUnchanged>>

\* A startup call reports failure: CY_ASSERT(0) halts when the result is
\* tested, and the program continues when the result is discarded.
StartupFail ==
    /\ pc \in Fallible
    /\ failed' = failed \cup {pc}
    /\ pc' = IF pc \in Checked THEN "halt" ELSE StepAfter(pc)
    /\ UNCHANGED <<done, uart_tx_active, startupUnchanged>>

\* The six printf calls of the banner.
Banner ==
    /\ pc = "banner"
    /\ uart_tx_active' = TRUE
    /\ done' = done \cup {pc}
    /\ pc' = StepAfter(pc)
    /\ UNCHANGED <<failed, startupUnchanged>>

(* ------------------------------ main loop ------------------------------ *)

\* Cy_TCPWM_TriggerStart_Single(TCPWM0, TCPWM_CNT_NUM)
TimerStart ==
    /\ pc = "Cy_TCPWM_TriggerStart_Single" /\ ThreadRuns
    /\ pc' = "drain"
    /\ done' = done \cup {"Cy_TCPWM_TriggerStart_Single"}
    /\ UNCHANGED <<sar0_isr_set, sar1_isr_set, mainLocals, dac, uart_tx_active,
                   line, isr, intr, busy, reg, vin, dead, cycle, failed, histVars>>

\* while(cyhal_uart_is_tx_active(&cy_retarget_io_uart_obj) == true);
\* The main loop going on to the gate without waiting for the UART.
UartDrainSkipped ==
    /\ pc = "drain" /\ ThreadRuns
    /\ pc' = "gate"
    /\ UNCHANGED <<sar0_isr_set, sar1_isr_set, mainLocals, dac, uart_tx_active,
                   line, hwVars, histVars>>

UartDrain ==
    /\ pc = "drain" /\ ThreadRuns
    /\ ~uart_tx_active
    /\ pc' = "gate"
    /\ UNCHANGED <<sar0_isr_set, sar1_isr_set, mainLocals, dac, uart_tx_active,
                   line, hwVars, histVars>>

\* The gate with | in place of &.
GateOpenEither == sar0_isr_set \/ sar1_isr_set

\* The gate testing the first flag alone.
GateOpenFirst == sar0_isr_set

\* The wait loop's condition, !(sar0_isr_set & sar1_isr_set).
GateOpen == sar0_isr_set /\ sar1_isr_set

\* while(!(sar0_isr_set & sar1_isr_set)): leave the loop or go to sleep.
GateCheck ==
    /\ pc = "gate" /\ ThreadRuns
    /\ IF GateOpen
       THEN /\ pc' = "clear0"
            /\ opens' = opens + 1
            /\ openOk' = (setSince[0] /\ setSince[1])
            /\ openCyc' = <<flagCyc[0], flagCyc[1]>>
            /\ setSince' = [u \in Units |-> FALSE]
       ELSE /\ pc' = "sleep"
            /\ UNCHANGED <<opens, openOk, openCyc, setSince>>
    /\ UNCHANGED <<sar0_isr_set, sar1_isr_set, mainLocals, dac, uart_tx_active,
                   line, hwVars, regCyc, flagCyc, readCyc, handled, ioCount>>

\* Cy_SysPm_CpuEnterSleep(CY_SYSPM_WAIT_FOR_INTERRUPT): no interrupt is
\* pending here (ThreadRuns), so the CPU stops until the next one is taken.
\* A sleep entry that parks the DAC at code 0.
CpuEnterSleepParked ==
    /\ pc = "sleep" /\ ThreadRuns
    /\ pc' = "asleep"
    /\ dac' = <<0>>
    /\ UNCHANGED <<sar0_isr_set, sar1_isr_set, mainLocals, uart_tx_active,
                   line, hwVars, histVars>>

CpuEnterSleep ==
    /\ pc = "sleep" /\ ThreadRuns
    /\ pc' = "asleep"
    /\ UNCHANGED <<sar0_isr_set, sar1_isr_set, mainLocals, dac, uart_tx_active,
                   line, hwVars, histVars>>

\* sar0_isr_set = false;
\* The first clear going straight on to the result reads.
ClearFlag0ThenRead ==
    /\ pc = "clear0" /\ ThreadRuns
    /\ sar0_isr_set' = FALSE
    /\ pc' = "get0"
    /\ ioCount' = Count("clear0")
    /\ UNCHANGED <<sar1_isr_set, mainLocals, dac, uart_tx_active, line,
                   hwVars, gateHist>>

ClearFlag0 ==
    /\ pc = "clear0" /\ ThreadRuns
    /\ sar0_isr_set' = FALSE
    /\ pc' = "clear1"
    /\ ioCount' = Count("clear0")
    /\ UNCHANGED <<sar1_isr_set, mainLocals, dac, uart_tx_active, line,
                   hwVars, gateHist>>

\* sar1_isr_set = false;
\* The second clear left out.
ClearFlag1Skipped ==
    /\ pc = "clear1" /\ ThreadRuns
    /\ pc' = "get0"
    /\ ioCount' = Count("clear1")
    /\ UNCHANGED <<sar0_isr_set, sar1_isr_set, mainLocals, dac, uart_tx_active,
                   line, hwVars, gateHist>>

ClearFlag1 ==
    /\ pc = "clear1" /\ ThreadRuns
    /\ sar1_isr_set' = FALSE
    /\ pc' = "get0"
    /\ ioCount' = Count("clear1")
    /\ UNCHANGED <<sar0_isr_set, mainLocals, dac, uart_tx_active, line,
                   hwVars, gateHist>>

\* sar_result0 = Cy_SAR_GetResult16(SAR0, 0);
GetResult0 ==
    /\ pc = "get0" /\ ThreadRuns
    /\ sar_result0' = reg[0]
    /\ readCyc' = [readCyc EXCEPT ![0] = regCyc[0]]
    /\ ioCount' = Count("get0")
    /\ pc' = "get1"
    /\ UNCHANGED <<sar0_isr_set, sar1_isr_set, sar_result1, resultV_0, resultV_1,
                   product_result, dac, uart_tx_active, line, hwVars,
                   regCyc, flagCyc, setSince, openCyc, openOk, handled, opens>>

\* sar_result1 = Cy_SAR_GetResult16(SAR1, 0);
GetResult1 ==
    /\ pc = "get1" /\ ThreadRuns
    /\ sar_result1' = reg[1]
    /\ readCyc' = [readCyc EXCEPT ![1] = regCyc[1]]
    /\ ioCount' = Count("get1")
    /\ pc' = "volts0"
    /\ UNCHANGED <<sar0_isr_set, sar1_isr_set, sar_result0, resultV_0, resultV_1,
                   product_result, dac, uart_tx_active, line, hwVars,
                   regCyc, flagCyc, setSince, openCyc, openOk, handled, opens>>

\* resultV_0 = Cy_SAR_CountsTo_Volts(SAR0, 0, sar_result0);
CountsToVolts0 ==
    /\ pc = "volts0" /\ ThreadRuns
    /\ resultV_0' = Cy_SAR_CountsTo_Volts(sar_result0)
    /\ pc' = "volts1"
    /\ UNCHANGED <<sar0_isr_set, sar1_isr_set, sar_result0, sar_result1, resultV_1,
                   product_result, dac, uart_tx_active, line, hwVars, histVars>>

\* resultV_1 = Cy_SAR_CountsTo_Volts(SAR1, 0, sar_result1);
CountsToVolts1 ==
    /\ pc = "volts1" /\ ThreadRuns
    /\ resultV_1' = Cy_SAR_CountsTo_Volts(sar_result1)
    /\ pc' = "product"
    /\ UNCHANGED <<sar0_isr_set, sar1_isr_set, sar_result0, sar_result1, resultV_0,
                   product_result, dac, uart_tx_active, line, hwVars, histVars>>

\* The first operand multiplied by itself.
Square(a, b) == a * a

\* The float multiplication, exact.
Times(a, b) == a * b

\* product_result = resultV_0 * resultV_1;
\* The product going straight on to the telemetry line, the DAC write left out.
ProductThenPrint ==
    /\ pc = "product" /\ ThreadRuns
    /\ product_result' = Times(resultV_0, resultV_1)
    /\ pc' = "print"
    /\ UNCHANGED <<sar0_isr_set, sar1_isr_set, sar_result0, sar_result1, resultV_0,
                   resultV_1, dac, uart_tx_active, line, hwVars, histVars>>

Product ==
    /\ pc = "product" /\ ThreadRuns
    /\ product_result' = Times(resultV_0, resultV_1)
    /\ pc' = "setvalue"
    /\ UNCHANGED <<sar0_isr_set, sar1_isr_set, sar_result0, sar_result1, resultV_0,
                   resultV_1, dac, uart_tx_active, line, hwVars, histVars>>

\* Cy_CTDAC_SetValue(CTDAC0, (int)(product_result*SCALING_FACTOR));
SetValue ==
    /\ pc = "setvalue" /\ ThreadRuns
    /\ dac' = <<ScaledCode(product_result)>>
    /\ pc' = "print"
    /\ ioCount' = Count("setvalue")
    /\ UNCHANGED <<sar0_isr_set, sar1_isr_set, mainLocals, uart_tx_active, line,
                   hwVars, gateHist>>

\* printf("SAR0 input: %.2fV \t SAR1 input: %.2fV\r\n", resultV_0, resultV_1);
Printf ==
    /\ pc = "print" /\ ThreadRuns
    /\ line' = <<Fmt2(resultV_0), Fmt2(resultV_1)>>
    /\ uart_tx_active' = TRUE
    /\ pc' = "drain"
    /\ ioCount' = Count("print")
    /\ UNCHANGED <<sar0_isr_set, sar1_isr_set, mainLocals, dac, hwVars, gateHist>>

main ==
    \/ StartupCall
    \/ StartupFail
    \/ Banner
    \/ TimerStart
    \/ UartDrain
    \/ GateCheck
    \/ CpuEnterSleep
    \/ ClearFlag0
    \/ ClearFlag1
    \/ GetResult0
    \/ GetResult1
    \/ CountsToVolts0
    \/ CountsToVolts1
    \/ Product
    \/ SetValue
    \/ Printf

(* ---------------------------- specifications --------------------------- *)

Hardware ==
    \/ \E u \in Units : ConvDone(u)
    \/ \E u \in Units : UnitStall(u)
    \/ UartTxDone

Next ==
    \/ main
    \/ sar0_interrupt
    \/ sar1_interrupt
    \/ Hardware
    \/ TimerFire

\* Every timer period, of any length.
Spec == Init /\ [][Next]_vars

\* The program at rest: asleep in WFI with no conversion running, no
\* interrupt pending and the UART idle.
Quiescent ==
    /\ pc = "asleep"
    /\ isr = <<>>
    /\ \A u \in Units : ~busy[u] /\ ~Pending(u)
    /\ ~uart_tx_active

\* The shipped 200 ms period: a tick finds the program at rest.
TimerFireSlow == Quiescent /\ TimerFire

NextSlow ==
    \/ main
    \/ sar0_interrupt
    \/ sar1_interrupt
    \/ Hardware
    \/ TimerFireSlow

SpecSlow == Init /\ [][NextSlow]_vars

(* ------------------------------- claims -------------------------------- *)

\* main() is past the gate and has not yet finished the iteration.
Processing ==
    pc \in {"clear0", "clear1", "get0", "get1", "volts0", "volts1",
            "product", "setvalue", "print"}

\* main() is in the wait loop of lines 161-164.
Waiting == pc \in {"gate", "sleep", "asleep"}

\* C1 (gate safety): whenever the main loop has left the wait loop, both
\* sar0_interrupt and sar1_interrupt had set their flag since the previous
\* gate opening; it never goes on to read results after only one unit, or
\* neither, completed since then.
C1_GateSafety == Processing => openOk

\* C1 witness: the gate opened a second time, after both handlers ran again.
C1_Witness == opens = 2 /\ pc = "get0" /\ openOk

\* The program has caught up: at rest, with the gate closed.
CaughtUp == Quiescent /\ ~GateOpen

\* Trigger cycles whose two End-Of-Scan completions both reached their handler.
CompletePairs == handled[0] \cap handled[1]

\* C2 (no missed processing): once the main loop has caught up, the number
\* of gate openings equals the number of trigger cycles whose two completions
\* have both arrived.
C2_NoMissedProcessing == CaughtUp => opens = Cardinality(CompletePairs)

\* C3 (flag reset atomicity): in the state right after sar1_isr_set = false
\* both flags are false.
C3_BothClearAfterReset ==
    [][(pc = "clear1" /\ pc' = "get0") => (~sar0_isr_set' /\ ~sar1_isr_set')]_vars

\* C4 (no lost completion): a completion recorded by its handler after the
\* gate opened is still held in its flag (the main loop's clear never erases
\* it), until the next opening consumes it.
C4_NoLostCompletion == \A u \in Units : setSince[u] => Flag(u)

\* C5 (pair consistency): the two raw results of an iteration come from one
\* trigger cycle, the cycle whose two completions opened the gate.
C5_PairConsistency ==
    pc \in {"volts0", "volts1", "product", "setvalue", "print"} =>
        /\ readCyc[0] = readCyc[1]
        /\ openCyc = <<readCyc[0], readCyc[1]>>

\* C6 (one acquisition in flight): the timer fires a new trigger only when
\* the pair of results of the previous cycle has been read by the main loop
\* and the flags are cleared.
C6_OneInFlight ==
    [][(cycle' = cycle + 1 /\ regCyc[0] = cycle /\ regCyc[1] = cycle) =>
         (readCyc[0] = cycle /\ readCyc[1] = cycle /\ ~sar0_isr_set /\ ~sar1_isr_set)]_vars

\* SAR u has stopped for good and nothing of it is left to consume: its flag
\* is clear and no End-Of-Scan of it awaits service.
Silent(u) == dead[u] /\ ~Flag(u) /\ CY_SAR_INTR_EOS \notin intr[u]

\* C7 as stated (blocking on a missing signal): from the point on at which a
\* unit raises no further End-Of-Scan, the gate never opens again.
C7_NeverOpensAgain ==
    [][(\E u \in Units : dead[u]) => opens' = opens]_vars

\* C7 as amended: once a unit has stopped for good and its flag is clear with
\* no End-Of-Scan of it awaiting service, that stays so, the gate never opens
\* again, and a main loop that is in the wait loop stays there without a
\* further result read, DAC write or telemetry line.
C7_BlockedForever ==
    [][\A u \in Units : Silent(u) =>
         /\ Silent(u)'
         /\ opens' = opens
         /\ Waiting => (Waiting' /\ UNCHANGED <<mainLocals, dac, line>>)]_vars

\* C7 witness: SAR0 stopped after one full iteration; SAR1 completed once
\* more and its flag is set, and the main loop sleeps at the closed gate.
C7_Witness ==
    /\ Silent(0) /\ sar1_isr_set /\ flagCyc[1] = 2
    /\ opens = 1 /\ pc = "asleep" /\ Quiescent

\* C8 (wake-and-recheck liveness): whenever both completion flags are set
\* the main loop goes on to open the gate with no further interrupt needed;
\* so it is never stopped in WFI, with both flags set and no interrupt left
\* to take, where only a further interrupt could make it test the gate.
C8_NoSleepWithBothSet ==
    GateOpen => ~(pc = "asleep" /\ isr = <<>> /\ \A u \in Units : ~Pending(u))

\* C9 (output range): every value passed to Cy_CTDAC_SetValue lies in
\* 0..4095.
C9_DacInRange == dac # <<>> => dac[1] \in 0..DAC_MAX

\* C10 (scale-factor boundary): with both inputs at full scale, 3.3 V each,
\* the code written to the DAC is the maximum code 4095.
C10_FullScaleIsMax ==
    (pc = "print" /\ resultV_0 = FullScaleV /\ resultV_1 = FullScaleV) =>
        dac = <<DAC_MAX>>


\* SCALING_FACTOR * b >= k * VoltDen^2, for 0 <= b < VoltDen^2 and
\* 0 <= k <= SCALING_FACTOR, without forming either product.
ScaledAtLeast(b, k) ==
    LET D == VoltDen * VoltDen
    IN  b >= k * (D \div SCALING_FACTOR)
             + (k * (D % SCALING_FACTOR) + SCALING_FACTOR - 1) \div SCALING_FACTOR

\* code is product * SCALING_FACTOR with its fractional part dropped:
\* |code| <= |product * SCALING_FACTOR| < |code| + 1, with the sign of product.
TruncatesTo(product, code) ==
    LET D == VoltDen * VoltDen
        a == Abs(product) \div D
        b == Abs(product) % D
        k == Abs(code) - SCALING_FACTOR * a
    IN  /\ product >= 0 => code >= 0
        /\ product <= 0 => code <= 0
        /\ k \in 0..(SCALING_FACTOR - 1)
        /\ ScaledAtLeast(b, k)
        /\ ~ScaledAtLeast(b, k + 1)

\* C11 as stated: the code written to the DAC is the nearest integer to
\* resultV_0 * resultV_1 * SCALING_FACTOR.
C11_RoundedToNearest ==
    pc = "print" =>
        /\ product_result = resultV_0 * resultV_1
        /\ dac = <<RoundedCode(product_result)>>

\* C11 amended: the code written to the DAC is resultV_0 * resultV_1 *
\* SCALING_FACTOR truncated toward zero.
C11_TruncatedTowardZero ==
    pc = "print" =>
        /\ product_result = resultV_0 * resultV_1
        /\ dac # <<>>
        /\ TruncatesTo(product_result, dac[1])

\* 1.00 V times 3.30 V scales to 1227.7: the DAC receives 1227.
C11_Witness ==
    /\ pc = "print"
    /\ sar_result0 = 1241 /\ sar_result1 = 4095
    /\ dac = <<1227>>
    /\ RoundedCode(product_result) = 1228

\* C12: whenever either calibrated input is 0 V, the code written to the DAC
\* is 0, whatever the other input is.
C12_ZeroInput ==
    (pc = "print" /\ (resultV_0 = 0 \/ resultV_1 = 0)) => dac = <<0>>

C12_Witness ==
    /\ pc = "print"
    /\ resultV_0 = FullScaleV /\ resultV_1 = 0
    /\ dac = <<0>>


\* C13: once any startup call has reported failure the program is halted at
\* that call; the trigger timer is never started and the acquisition loop
\* never entered.
C13_FailureHalts ==
    failed # {} =>
        /\ pc = "halt"
        /\ "Cy_TCPWM_TriggerStart_Single" \notin done


\* A step of handler u: its entry (pushed on the stack of active handlers)
\* or its return (popped from it).
HandlerStep(u) ==
    \/ isr' = Append(isr, u)
    \/ /\ isr # <<>> /\ isr[Len(isr)] = u
       /\ isr' = SubSeq(isr, 1, Len(isr) - 1)

\* C14: a step of handler u leaves the other unit's flag, the main loop's
\* result variables and the outputs unchanged, and changes its own flag only
\* by writing true to it.
C14_SingleWriter ==
    [][\A u \in Units :
          HandlerStep(u) =>
              /\ Flag(1 - u)' = Flag(1 - u)
              /\ Flag(u)' # Flag(u) => Flag(u)'
              /\ UNCHANGED <<mainLocals, dac, line>>]_vars

\* Handler 0 has set its flag and is about to return; flag 1 is untouched.
C14_Witness ==
    /\ isr = <<0>>
    /\ sar0_isr_set /\ ~sar1_isr_set
    /\ flagCyc[0] = 1 /\ flagCyc[1] = 0

\* C15: a flag goes from true to false only in the statement of the main loop
\* that clears it; the first clear is entered only from a gate check that
\* found both flags true and is followed directly by the second.
C15_ClearOnlyAfterBoth ==
    [][/\ (sar0_isr_set /\ ~sar0_isr_set') => (pc = "clear0" /\ pc' = "clear1")
       /\ (sar1_isr_set /\ ~sar1_isr_set') => (pc = "clear1" /\ pc' = "get0")
       /\ (pc # "clear0" /\ pc' = "clear0") =>
              (pc = "gate" /\ sar0_isr_set /\ sar1_isr_set)
       /\ (pc = "clear0" /\ pc' # "clear0") => (pc' = "clear1" /\ ~sar0_isr_set')
       /\ (pc = "clear1" /\ pc' # "clear1") => (pc' = "get0" /\ ~sar1_isr_set')]_vars

\* Between the two clears of the first gate opening.
C15_Witness ==
    /\ pc = "clear1"
    /\ ~sar0_isr_set /\ sar1_isr_set
    /\ opens = 1 /\ openOk

\* C16: at no time are both handlers partway through execution.
C16_HandlerMutualExclusion == Len(isr) <= 1

\* Handler 1 is running while the interrupt of unit 0 is pending and held off.
C16_Witness ==
    /\ isr = <<1>>
    /\ Pending(0)
    /\ Cy_SysInt_Init(0) \in done


\* C17: the wait for the gate is entered only from the UART drain loop and
\* processing only from the gate, so the program never tests the gate, executes
\* the sleep instruction or sleeps while the UART is transmitting.
C17_DrainWaitProcess ==
    [][/\ Waiting' => ~uart_tx_active'
       /\ (~Waiting /\ Waiting') => pc = "drain"
       /\ (pc # "clear0" /\ pc' = "clear0") => pc = "gate"
       /\ (pc # "drain" /\ pc' = "drain") =>
              pc \in {"print", "Cy_TCPWM_TriggerStart_Single"}]_vars

\* Asleep after the first telemetry line has left the UART.
C17_Witness ==
    /\ pc = "asleep"
    /\ ~uart_tx_active
    /\ line # <<>> /\ ioCount["print"] = 1

\* The statements of the processing sequence, in program order.
ProcessingSeq ==
    <<"clear0", "clear1", "get0", "get1", "volts0", "volts1", "product",
      "setvalue", "print">>

\* The program positions of the current gate opening at which statement s has
\* not yet been executed.
NotYet(s) ==
    LET i == CHOOSE j \in 1..Len(ProcessingSeq) : ProcessingSeq[j] = s
    IN  {ProcessingSeq[j] : j \in 1..i}

\* The DAC code and the telemetry line computed from the pair last read.
FromPair(r0, r1) ==
    [dac  |-> <<ScaledCode(Cy_SAR_CountsTo_Volts(r0) * Cy_SAR_CountsTo_Volts(r1))>>,
     line |-> <<Fmt2(Cy_SAR_CountsTo_Volts(r0)), Fmt2(Cy_SAR_CountsTo_Volts(r1))>>]

\* C18: at every program position each of the result reads, the DAC write and
\* the telemetry line has been executed once per gate opening (once less where
\* the current opening has not reached it yet), so all are complete when the
\* gate is tested again; the DAC code and the line are those of the pair read.
C18_StrictlySequential ==
    /\ \A s \in {"get0", "get1", "setvalue", "print"} :
           ioCount[s] = IF pc \in NotYet(s) THEN opens - 1 ELSE opens
    /\ (opens > 0 /\ pc \notin NotYet("setvalue")) =>
           dac = FromPair(sar_result0, sar_result1).dac
    /\ (opens > 0 /\ pc \notin NotYet("print")) =>
           line = FromPair(sar_result0, sar_result1).line

\* Back at the gate after the second opening has been processed in full.
C18_Witness ==
    /\ pc = "gate"
    /\ opens = 2
    /\ ioCount["get0"] = 2 /\ ioCount["get1"] = 2
    /\ ioCount["setvalue"] = 2 /\ ioCount["print"] = 2

\* C19: whenever a result register is read, both flags have been cleared for
\* the current gate opening.
C19_ResetBeforeUse ==
    [][(ioCount["get0"]' # ioCount["get0"] \/ ioCount["get1"]' # ioCount["get1"]) =>
           /\ ioCount["clear0"] = opens
           /\ ioCount["clear1"] = opens]_vars

\* The first result register has been read after both clears.
C19_Witness ==
    /\ pc = "get1"
    /\ opens = 1
    /\ ioCount["clear0"] = 1 /\ ioCount["clear1"] = 1 /\ ioCount["get0"] = 1

BeforeTimer ==
    {"Cy_SAR_Init_0", "Cy_SAR_Init_1", "Cy_SAR_Enable_0", "Cy_SAR_Enable_1",
     "Cy_SysInt_Init_0", "Cy_SysInt_Init_1", "NVIC_EnableIRQ_0", "NVIC_EnableIRQ_1",
     "Cy_CTDAC_Enable", "Cy_CTB_Enable", "banner", "__enable_irq"}

\* C21: when the program is about to start the trigger timer, everything in
\* BeforeTimer has been done, both flags are false and no conversion has been
\* started.
C21_StartupOrdering ==
    pc = "Cy_TCPWM_TriggerStart_Single" =>
        /\ BeforeTimer \subseteq done
        /\ ~sar0_isr_set /\ ~sar1_isr_set
        /\ cycle = 0
        /\ \A u \in Units : ~busy[u] /\ ~Pending(u)


\* C22: the number of gate openings never exceeds the number of End-Of-Scan
\* completions handled for SAR0, nor the number handled for SAR1.
C22_NoDoubleProcessing ==
    \A u \in Units : opens <= Cardinality(handled[u])

\* Between the two clears of the first opening, handler 0 has already set its
\* flag again for the second completion.
C22_Witness ==
    /\ pc = "clear1"
    /\ sar0_isr_set /\ sar1_isr_set
    /\ opens = 1
    /\ handled[0] = {1, 2} /\ handled[1] = {1}

\* The outputs: the DAC code, the stored results and the telemetry stream.
outputs == <<dac, mainLocals, line, ioCount["setvalue"], ioCount["print"]>>

\* C23: a step taken while the main loop drains the UART or waits at the gate,
\* and every handler step, leaves the outputs unchanged; the DAC is written
\* and a line printed only by their statements of the processing sequence,
\* which is entered only from a gate check that found both flags true and is
\* walked in program order.
C23_OutputsOnlyOnOpening ==
    [][/\ (pc = "drain" \/ Waiting \/ \E u \in Units : HandlerStep(u)) =>
              UNCHANGED outputs
       /\ ioCount["setvalue"]' # ioCount["setvalue"] => pc = "setvalue"
       /\ ioCount["print"]' # ioCount["print"] => pc = "print"
       /\ (dac' # dac \/ line' # line) => pc \in {"setvalue", "print"}
       /\ (pc # "clear0" /\ pc' = "clear0") =>
              (pc = "gate" /\ sar0_isr_set /\ sar1_isr_set)
       /\ \A i \in 2..Len(ProcessingSeq) :
              (pc # ProcessingSeq[i] /\ pc' = ProcessingSeq[i]) =>
                  pc = ProcessingSeq[i - 1]]_vars

\* Waiting at the gate with the first DAC code and line out, while handler 0
\* runs for the second completion.
C23_Witness ==
    /\ pc = "gate"
    /\ isr = <<0>>
    /\ opens = 1
    /\ dac # <<>> /\ line # <<>> /\ ioCount["print"] = 1

=============================================================================
